---- MODULE Spec2Model ----
(***************************************************************************)
(* Model of src/common/security/local/context.go: the database-backed      *)
(* SecurityContext of Harbor.  A context is a principal (possibly nil)     *)
(* plus a ProjectManager; every method is a function of the context and    *)
(* of what the collaborators (pm.IsPublic, pm.Get, pm.List, dao.GetUser,   *)
(* dao.GetUserProjectRoles, dao.GetRolesByLDAPGroup) answer.  The answers  *)
(* of the collaborators are the environment, one answer per call site:     *)
(* pm.Get is asked at two places (GetProjectRoles, then GetRolesByGroup)   *)
(* by two separate queries, and the project store may answer the second    *)
(* differently from the first.  The answers are drawn in Init, the methods *)
(* are the actions, and `last` records the outcome of the most recent call *)
(* together with the trace of the calls it made.                           *)
(***************************************************************************)
EXTENDS Integers, Sequences, FiniteSets, TLC

\* ---------------------------------------------------------------- bounds
MaxGroups == 1
MaxDirectRows == 1
MaxGroupRows == 1
MaxProjects == 1

\* ------------------------------------------------------------- constants
RoleProjectAdmin == "RoleProjectAdmin"
RoleDeveloper == "RoleDeveloper"
RoleGuest == "RoleGuest"
RoleOther == "RoleOther"

Roles == {RoleProjectAdmin, RoleDeveloper, RoleGuest}

\* the values the role column of the group-role store can hold
RoleValues == Roles \cup {RoleOther}

\* the role codes the direct-role store can hold ("X" is not in the table)
RoleCodes == {"MDRWS", "RWS", "RS", "X"}

\* the nil *models.User; its fields are never read (IsAuthenticated guards them)
NoUser == [IsNil |-> TRUE, Username |-> "", HasAdminRole |-> FALSE, GroupList |-> <<>>]
NilID == "nil"
ProjectIDs == {NilID, "library"}

RECURSIVE SeqsUpTo(_, _)
SeqsUpTo(S, n) ==
    IF n = 0 THEN {<<>>}
    ELSE LET shorter == SeqsUpTo(S, n - 1)
         IN  shorter \cup {Append(q, x) : q \in {r \in shorter : Len(r) = n - 1}, x \in S}

GroupListOf(n) == [i \in 1..n |-> i]

Users ==
    {NoUser} \cup
    {[IsNil |-> FALSE, Username |-> "alice", HasAdminRole |-> a,
      GroupList |-> GroupListOf(n)] :
        a \in BOOLEAN, n \in 0..MaxGroups}

VARIABLES
    user,        \* SecurityContext.user: the principal, or NoUser
    isPublic,    \* answer of pm.IsPublic: "true", "false" or "err"
    getUser,     \* answer of dao.GetUser: "ok", "miss" (nil, nil) or "err"
    pmGet,       \* answer of pm.Get in GetProjectRoles: "ok", "miss" (nil, nil)
                 \* or "err"
    pmGetByGroup, \* answer of pm.Get in GetRolesByGroup: "ok", "miss" or "err"
    directRoles, \* answer of dao.GetUserProjectRoles: [err, rows of role codes]
    groupRoles,  \* dao.GetRolesByLDAPGroup: rows = the role values the store holds
                 \* for the principal's groups, err = the query fails
    list,        \* answer of pm.List: [err, projects]
    last         \* the most recent call and its outcome

env == <<user, isPublic, getUser, pmGet, pmGetByGroup, directRoles, groupRoles, list>>
vars == <<user, isPublic, getUser, pmGet, pmGetByGroup, directRoles, groupRoles, list, last>>

\* --------------------------------------------------------------- methods
IsAuthenticated == user # NoUser

GetUsername == IF ~IsAuthenticated THEN "" ELSE user.Username

IsSysAdmin == IF ~IsAuthenticated THEN FALSE ELSE user.HasAdminRole

\* the switch of GetProjectRoles: a code outside the table appends nothing
RoleOfCode(code) ==
    CASE code = "MDRWS" -> <<RoleProjectAdmin>>
      [] code = "RWS" -> <<RoleDeveloper>>
      [] code = "RS" -> <<RoleGuest>>
      [] OTHER -> <<>>

RECURSIVE MapRoleList(_)
MapRoleList(roleList) ==
    IF roleList = <<>> THEN <<>>
    ELSE RoleOfCode(Head(roleList)) \o MapRoleList(Tail(roleList))

GetRolesByGroup_NoGroupCheck(pid) ==
    IF pmGetByGroup # "ok" \/ user = NoUser
    THEN [ret |-> <<>>, calls |-> <<"GetRolesByGroup", "Get">>]
    ELSE IF groupRoles.err
    THEN [ret |-> <<>>,
          calls |-> <<"GetRolesByGroup", "Get", "GetRolesByLDAPGroup">>]
    ELSE [ret |-> groupRoles.rows,
          calls |-> <<"GetRolesByGroup", "Get", "GetRolesByLDAPGroup">>]

\* a nil slice and an empty slice are both the empty sequence
GetRolesByGroup(pid) ==
    IF pmGetByGroup # "ok" \/ user = NoUser \/ Len(user.GroupList) = 0
    THEN [ret |-> <<>>, calls |-> <<"GetRolesByGroup", "Get">>]
    ELSE IF groupRoles.err
    THEN [ret |-> <<>>,
          calls |-> <<"GetRolesByGroup", "Get", "GetRolesByLDAPGroup">>]
    ELSE [ret |-> groupRoles.rows,
          calls |-> <<"GetRolesByGroup", "Get", "GetRolesByLDAPGroup">>]

GetProjectRoles_NoAuthCheck(pid) ==
    IF pid = NilID
    THEN [ret |-> <<>>, calls |-> <<"GetProjectRoles">>]
    ELSE IF getUser # "ok"
    THEN [ret |-> <<>>, calls |-> <<"GetProjectRoles", "GetUser">>]
    ELSE IF pmGet # "ok"
    THEN [ret |-> <<>>, calls |-> <<"GetProjectRoles", "GetUser", "Get">>]
    ELSE IF directRoles.err
    THEN [ret |-> <<>>,
          calls |-> <<"GetProjectRoles", "GetUser", "Get", "GetUserProjectRoles">>]
    ELSE LET roles == MapRoleList(directRoles.rows)
             trace == <<"GetProjectRoles", "GetUser", "Get", "GetUserProjectRoles">>
         IN  IF Len(roles) # 0
             THEN [ret |-> roles, calls |-> trace]
             ELSE LET g == GetRolesByGroup(pid)
                  IN  [ret |-> g.ret, calls |-> trace \o g.calls]

GetProjectRoles_IgnoreRoleErr(pid) ==
    IF ~IsAuthenticated \/ pid = NilID
    THEN [ret |-> <<>>, calls |-> <<"GetProjectRoles">>]
    ELSE IF getUser # "ok"
    THEN [ret |-> <<>>, calls |-> <<"GetProjectRoles", "GetUser">>]
    ELSE IF pmGet # "ok"
    THEN [ret |-> <<>>, calls |-> <<"GetProjectRoles", "GetUser", "Get">>]
    ELSE LET roles == MapRoleList(directRoles.rows)
             trace == <<"GetProjectRoles", "GetUser", "Get", "GetUserProjectRoles">>
         IN  IF Len(roles) # 0
             THEN [ret |-> roles, calls |-> trace]
             ELSE LET g == GetRolesByGroup(pid)
                  IN  [ret |-> g.ret, calls |-> trace \o g.calls]

GetProjectRoles_GroupAlways(pid) ==
    IF ~IsAuthenticated \/ pid = NilID
    THEN [ret |-> <<>>, calls |-> <<"GetProjectRoles">>]
    ELSE IF getUser # "ok"
    THEN [ret |-> <<>>, calls |-> <<"GetProjectRoles", "GetUser">>]
    ELSE IF pmGet # "ok"
    THEN [ret |-> <<>>, calls |-> <<"GetProjectRoles", "GetUser", "Get">>]
    ELSE IF directRoles.err
    THEN [ret |-> <<>>,
          calls |-> <<"GetProjectRoles", "GetUser", "Get", "GetUserProjectRoles">>]
    ELSE LET roles == MapRoleList(directRoles.rows)
             trace == <<"GetProjectRoles", "GetUser", "Get", "GetUserProjectRoles">>
             g == GetRolesByGroup(pid)
         IN  [ret |-> roles \o g.ret, calls |-> trace \o g.calls]

GetProjectRoles(pid) ==
    IF ~IsAuthenticated \/ pid = NilID
    THEN [ret |-> <<>>, calls |-> <<"GetProjectRoles">>]
    ELSE IF getUser # "ok"
    THEN [ret |-> <<>>, calls |-> <<"GetProjectRoles", "GetUser">>]
    ELSE IF pmGet # "ok"
    THEN [ret |-> <<>>, calls |-> <<"GetProjectRoles", "GetUser", "Get">>]
    ELSE IF directRoles.err
    THEN [ret |-> <<>>,
          calls |-> <<"GetProjectRoles", "GetUser", "Get", "GetUserProjectRoles">>]
    ELSE LET roles == MapRoleList(directRoles.rows)
             trace == <<"GetProjectRoles", "GetUser", "Get", "GetUserProjectRoles">>
         IN  IF Len(roles) # 0
             THEN [ret |-> roles, calls |-> trace]
             ELSE LET g == GetRolesByGroup(pid)
                  IN  [ret |-> g.ret, calls |-> trace \o g.calls]

Contains(roles, r) == \E i \in 1..Len(roles) : roles[i] = r

HasReadPerm_AuthFirst(pid) ==
    IF ~IsAuthenticated
    THEN [ret |-> FALSE, calls |-> <<>>]
    ELSE IF isPublic = "err"
    THEN [ret |-> FALSE, calls |-> <<"IsPublic">>]
    ELSE IF isPublic = "true"
    THEN [ret |-> TRUE, calls |-> <<"IsPublic">>]
    ELSE IF IsSysAdmin
    THEN [ret |-> TRUE, calls |-> <<"IsPublic">>]
    ELSE LET r == GetProjectRoles(pid)
         IN  [ret |-> Len(r.ret) > 0, calls |-> <<"IsPublic">> \o r.calls]

HasReadPerm(pid) ==
    IF isPublic = "err"
    THEN [ret |-> FALSE, calls |-> <<"IsPublic">>]
    ELSE IF isPublic = "true"
    THEN [ret |-> TRUE, calls |-> <<"IsPublic">>]
    ELSE IF ~IsAuthenticated
    THEN [ret |-> FALSE, calls |-> <<"IsPublic">>]
    ELSE IF IsSysAdmin
    THEN [ret |-> TRUE, calls |-> <<"IsPublic">>]
    ELSE LET r == GetProjectRoles(pid)
         IN  [ret |-> Len(r.ret) > 0, calls |-> <<"IsPublic">> \o r.calls]

HasWritePerm_DeveloperOnly(pid) ==
    IF ~IsAuthenticated
    THEN [ret |-> FALSE, calls |-> <<>>]
    ELSE IF IsSysAdmin
    THEN [ret |-> TRUE, calls |-> <<>>]
    ELSE LET r == GetProjectRoles(pid)
         IN  [ret |-> Contains(r.ret, RoleDeveloper), calls |-> r.calls]

HasWritePerm(pid) ==
    IF ~IsAuthenticated
    THEN [ret |-> FALSE, calls |-> <<>>]
    ELSE IF IsSysAdmin
    THEN [ret |-> TRUE, calls |-> <<>>]
    ELSE LET r == GetProjectRoles(pid)
         IN  [ret |-> Contains(r.ret, RoleProjectAdmin) \/ Contains(r.ret, RoleDeveloper),
              calls |-> r.calls]

HasAllPerm_NoAdminOverride(pid) ==
    IF ~IsAuthenticated
    THEN [ret |-> FALSE, calls |-> <<>>]
    ELSE LET r == GetProjectRoles(pid)
         IN  [ret |-> Contains(r.ret, RoleProjectAdmin), calls |-> r.calls]

HasAllPerm_DeveloperToo(pid) ==
    IF ~IsAuthenticated
    THEN [ret |-> FALSE, calls |-> <<>>]
    ELSE IF IsSysAdmin
    THEN [ret |-> TRUE, calls |-> <<>>]
    ELSE LET r == GetProjectRoles(pid)
         IN  [ret |-> Contains(r.ret, RoleProjectAdmin) \/ Contains(r.ret, RoleDeveloper),
              calls |-> r.calls]

HasAllPerm(pid) ==
    IF ~IsAuthenticated
    THEN [ret |-> FALSE, calls |-> <<>>]
    ELSE IF IsSysAdmin
    THEN [ret |-> TRUE, calls |-> <<>>]
    ELSE LET r == GetProjectRoles(pid)
         IN  [ret |-> Contains(r.ret, RoleProjectAdmin), calls |-> r.calls]

\* s.user.GroupList is evaluated while the argument of pm.List is built:
\* with a nil user it is a nil-pointer dereference, and the call panics
\* before pm.List is reached.
GetMyProjects ==
    IF user = NoUser
    THEN [outcome |-> "panic", projects |-> <<>>, err |-> FALSE, calls |-> <<>>]
    ELSE IF list.err
    THEN [outcome |-> "return", projects |-> <<>>, err |-> TRUE, calls |-> <<"List">>]
    ELSE [outcome |-> "return", projects |-> list.projects, err |-> FALSE,
          calls |-> <<"List">>]

\* ------------------------------------------------------------ state machine
NoCall ==
    [op |-> "none", pid |-> NilID, outcome |-> "return", ok |-> FALSE,
     roles |-> <<>>, projects |-> <<>>, err |-> FALSE, calls |-> <<>>]

BoolCall(name, pid, r) ==
    [op |-> name, pid |-> pid, outcome |-> "return", ok |-> r.ret,
     roles |-> <<>>, projects |-> <<>>, err |-> FALSE, calls |-> r.calls]

RolesCall(name, pid, r) ==
    [op |-> name, pid |-> pid, outcome |-> "return", ok |-> FALSE,
     roles |-> r.ret, projects |-> <<>>, err |-> FALSE, calls |-> r.calls]

Init ==
    /\ user \in Users
    /\ isPublic \in {"true", "false", "err"}
    /\ getUser \in {"ok", "miss", "err"}
    /\ pmGet \in {"ok", "miss", "err"}
    /\ pmGetByGroup \in {"ok", "miss", "err"}
    /\ directRoles \in
          {[err |-> TRUE, rows |-> <<>>]} \cup
          {[err |-> FALSE, rows |-> q] : q \in SeqsUpTo(RoleCodes, MaxDirectRows)}
    /\ groupRoles \in
          {[err |-> e, rows |-> q] : e \in BOOLEAN, q \in SeqsUpTo(RoleValues, MaxGroupRows)}
    /\ list \in
          {[err |-> TRUE, projects |-> <<>>]} \cup
          {[err |-> FALSE, projects |-> q] : q \in SeqsUpTo({"library"}, MaxProjects)}
    /\ last = NoCall

CallHasReadPerm ==
    /\ \E pid \in ProjectIDs : last' = BoolCall("HasReadPerm", pid, HasReadPerm(pid))
    /\ UNCHANGED env

CallHasWritePerm ==
    /\ \E pid \in ProjectIDs : last' = BoolCall("HasWritePerm", pid, HasWritePerm(pid))
    /\ UNCHANGED env

CallHasAllPerm ==
    /\ \E pid \in ProjectIDs : last' = BoolCall("HasAllPerm", pid, HasAllPerm(pid))
    /\ UNCHANGED env

CallGetProjectRoles ==
    /\ \E pid \in ProjectIDs :
          last' = RolesCall("GetProjectRoles", pid, GetProjectRoles(pid))
    /\ UNCHANGED env

CallGetRolesByGroup ==
    /\ \E pid \in ProjectIDs :
          last' = RolesCall("GetRolesByGroup", pid, GetRolesByGroup(pid))
    /\ UNCHANGED env

CallGetMyProjects ==
    /\ last' = [op |-> "GetMyProjects", pid |-> NilID,
                outcome |-> GetMyProjects.outcome, ok |-> FALSE, roles |-> <<>>,
                projects |-> GetMyProjects.projects, err |-> GetMyProjects.err,
                calls |-> GetMyProjects.calls]
    /\ UNCHANGED env

Next ==
    \/ CallHasReadPerm
    \/ CallHasWritePerm
    \/ CallHasAllPerm
    \/ CallGetProjectRoles
    \/ CallGetRolesByGroup
    \/ CallGetMyProjects

Spec == Init /\ [][Next]_vars

\* ------------------------------------------------------------ properties
PermOps == {"HasReadPerm", "HasWritePerm", "HasAllPerm"}

InTrace(name) == \E i \in 1..Len(last.calls) : last.calls[i] = name

HasGroups == Len(user.GroupList) > 0

\* the direct-role query is reached and answers for a present identifier
DirectReached(pid) ==
    /\ IsAuthenticated
    /\ pid # NilID
    /\ getUser = "ok"
    /\ pmGet = "ok"
    /\ ~directRoles.err

OnlyGuest(roles) ==
    /\ Len(roles) > 0
    /\ \A i \in 1..Len(roles) : roles[i] = RoleGuest

\* C1: whenever the public-flag lookup answers true, HasReadPerm returns
\* true, for every principal (nil, admin or not) and every role data.
C1_PublicRead ==
    (last.op = "HasReadPerm" /\ isPublic = "true") => last.ok

C1_Witness ==
    /\ last.op = "HasReadPerm"
    /\ isPublic = "true"
    /\ ~IsAuthenticated
    /\ last.ok

\* C2: with a nil principal HasWritePerm and HasAllPerm return false and
\* GetProjectRoles returns no role, whatever the stores hold.
C2_Unauthenticated ==
    ~IsAuthenticated =>
        /\ last.op \in {"HasWritePerm", "HasAllPerm"} => ~last.ok
        /\ last.op = "GetProjectRoles" => last.roles = <<>>

C2_Witness ==
    /\ ~IsAuthenticated
    /\ last.op = "GetProjectRoles"
    /\ last.pid # NilID
    /\ getUser = "ok" /\ pmGet = "ok" /\ ~directRoles.err
    /\ MapRoleList(directRoles.rows) # <<>>
    /\ last.roles = <<>>

\* C3: for a system admin the three predicates return true for every
\* project whose public-flag lookup does not fail (a project pm.Get does
\* not find included), and neither GetProjectRoles nor any store behind it
\* is called.
C3_AdminOverride ==
    (/\ IsSysAdmin
     /\ last.op \in PermOps
     /\ (last.op = "HasReadPerm" => isPublic # "err"))
    => /\ last.ok
       /\ ~InTrace("GetProjectRoles")
       /\ ~InTrace("GetUser")
       /\ ~InTrace("Get")
       /\ ~InTrace("GetUserProjectRoles")
       /\ ~InTrace("GetRolesByLDAPGroup")

C3_Witness ==
    /\ IsSysAdmin
    /\ last.op = "HasReadPerm"
    /\ last.pid # NilID
    /\ isPublic = "false"
    /\ pmGet = "miss"
    /\ last.ok

\* a collaborator call that the evaluation made failed or found nothing
FailedCall ==
    \/ InTrace("IsPublic") /\ isPublic = "err"
    \/ InTrace("GetUser") /\ getUser \in {"miss", "err"}
    \/ InTrace("GetProjectRoles") /\ InTrace("Get") /\ pmGet \in {"miss", "err"}
    \/ InTrace("GetRolesByGroup") /\ pmGetByGroup \in {"miss", "err"}
    \/ InTrace("GetUserProjectRoles") /\ directRoles.err
    \/ InTrace("GetRolesByLDAPGroup") /\ groupRoles.err

\* C4: fail-closed: a permission predicate during whose evaluation a
\* collaborator call failed or found nothing returns false.
C4_FailClosed ==
    (last.op \in PermOps /\ FailedCall) => ~last.ok

C4_Witness ==
    /\ last.op = "HasReadPerm"
    /\ isPublic = "false"
    /\ DirectReached(last.pid)
    /\ InTrace("GetRolesByGroup")
    /\ pmGetByGroup \in {"miss", "err"}
    /\ HasGroups
    /\ ~groupRoles.err
    /\ groupRoles.rows # <<>>
    /\ ~last.ok

\* C5 as stated: for an authenticated non-admin principal, ProjectAdmin in
\* the resolved roles gives write and all; Developer without ProjectAdmin
\* gives write and not all; only Guest gives neither and gives read.
C5_Original ==
    (IsAuthenticated /\ ~IsSysAdmin) =>
        LET roles == GetProjectRoles(last.pid).ret
        IN  /\ (last.op \in {"HasWritePerm", "HasAllPerm"}
                /\ Contains(roles, RoleProjectAdmin)) => last.ok
            /\ (last.op = "HasWritePerm" /\ Contains(roles, RoleDeveloper)
                /\ ~Contains(roles, RoleProjectAdmin)) => last.ok
            /\ (last.op = "HasAllPerm" /\ Contains(roles, RoleDeveloper)
                /\ ~Contains(roles, RoleProjectAdmin)) => ~last.ok
            /\ (last.op \in {"HasWritePerm", "HasAllPerm"} /\ OnlyGuest(roles))
                => ~last.ok
            /\ (last.op = "HasReadPerm" /\ OnlyGuest(roles)) => last.ok

\* C5 amended: the same law, where only Guest gives read provided the
\* public-flag lookup does not fail.
C5_RoleImplication ==
    (IsAuthenticated /\ ~IsSysAdmin) =>
        LET roles == GetProjectRoles(last.pid).ret
        IN  /\ (last.op \in {"HasWritePerm", "HasAllPerm"}
                /\ Contains(roles, RoleProjectAdmin)) => last.ok
            /\ (last.op = "HasWritePerm" /\ Contains(roles, RoleDeveloper)
                /\ ~Contains(roles, RoleProjectAdmin)) => last.ok
            /\ (last.op = "HasAllPerm" /\ Contains(roles, RoleDeveloper)
                /\ ~Contains(roles, RoleProjectAdmin)) => ~last.ok
            /\ (last.op \in {"HasWritePerm", "HasAllPerm"} /\ OnlyGuest(roles))
                => ~last.ok
            /\ (last.op = "HasReadPerm" /\ OnlyGuest(roles) /\ isPublic # "err")
                => last.ok

C5_Witness ==
    /\ IsAuthenticated /\ ~IsSysAdmin
    /\ last.op = "HasReadPerm"
    /\ isPublic = "false"
    /\ OnlyGuest(GetProjectRoles(last.pid).ret)
    /\ ~HasWritePerm(last.pid).ret
    /\ ~HasAllPerm(last.pid).ret
    /\ last.ok

\* C6 as stated: once the direct-role query returns rows, whatever their
\* codes, GetProjectRoles does not enter the group path and returns the
\* roles mapped from the direct rows.
C6_Original ==
    (/\ last.op = "GetProjectRoles"
     /\ DirectReached(last.pid)
     /\ directRoles.rows # <<>>)
    => /\ ~InTrace("GetRolesByGroup")
       /\ ~InTrace("GetRolesByLDAPGroup")
       /\ last.roles = MapRoleList(directRoles.rows)

\* C6 amended: once the direct-role query returns at least one row with a
\* recognized code, GetProjectRoles does not enter the group path and
\* returns the roles mapped from the direct rows.
C6_Precedence ==
    (/\ last.op = "GetProjectRoles"
     /\ DirectReached(last.pid)
     /\ MapRoleList(directRoles.rows) # <<>>)
    => /\ ~InTrace("GetRolesByGroup")
       /\ ~InTrace("GetRolesByLDAPGroup")
       /\ last.roles = MapRoleList(directRoles.rows)

C6_Witness ==
    /\ last.op = "GetProjectRoles"
    /\ DirectReached(last.pid)
    /\ MapRoleList(directRoles.rows) # <<>>
    /\ HasGroups
    /\ ~groupRoles.err
    /\ groupRoles.rows # <<>>
    /\ groupRoles.rows # MapRoleList(directRoles.rows)
    /\ last.roles = MapRoleList(directRoles.rows)

\* C7: GetMyProjects always returns, with the failure of pm.List and no
\* project when pm.List fails, and with the listed projects and no failure
\* when it succeeds.
C7_ListOutcome ==
    last.op = "GetMyProjects" =>
        /\ last.outcome = "return"
        /\ list.err => (last.err /\ last.projects = <<>>)
        /\ ~list.err => (~last.err /\ last.projects = list.projects)

\* C8: every element of the result of GetProjectRoles is one of the three
\* roles, and an unrecognized store value alone grants no permission.
C8_RolesRecognized ==
    /\ last.op = "GetProjectRoles" =>
          \A i \in 1..Len(last.roles) : last.roles[i] \in Roles
    /\ (/\ last.op \in PermOps
        /\ isPublic = "false"
        /\ ~IsSysAdmin
        /\ \A i \in 1..Len(directRoles.rows) : RoleOfCode(directRoles.rows[i]) = <<>>
        /\ \A i \in 1..Len(groupRoles.rows) : groupRoles.rows[i] \notin Roles)
       => ~last.ok

\* the group fallback is reached: the direct rows map to no role
FallbackReached(pid) ==
    /\ DirectReached(pid)
    /\ MapRoleList(directRoles.rows) = <<>>

\* C9 as stated: when the fallback is reached (user record and project
\* resolved, direct rows mapping to no role) GetProjectRoles returns the
\* roles of the principal's groups if the principal has a group and no role
\* otherwise; with a group mapped to Guest on a private project HasReadPerm
\* is true and HasWritePerm is false.
C9_Original ==
    FallbackReached(last.pid) =>
        /\ last.op = "GetProjectRoles" =>
              last.roles = (IF HasGroups THEN groupRoles.rows ELSE <<>>)
        /\ (HasGroups /\ OnlyGuest(groupRoles.rows) /\ isPublic = "false") =>
              /\ last.op = "HasReadPerm" => last.ok
              /\ last.op = "HasWritePerm" => ~last.ok

\* the group-role store is asked and answers: the second project lookup
\* finds the project and the group-role query succeeds
GroupAnswered ==
    /\ pmGetByGroup = "ok"
    /\ ~groupRoles.err

\* C9 amended: the same, provided the project lookup of GetRolesByGroup
\* finds the project again and the group-role query succeeds, and the
\* HasReadPerm / HasWritePerm consequence for a principal that is not a
\* system admin.
C9_GroupFallback ==
    FallbackReached(last.pid) =>
        /\ (last.op = "GetProjectRoles" /\ HasGroups /\ GroupAnswered) =>
              last.roles = groupRoles.rows
        /\ (last.op = "GetProjectRoles" /\ ~HasGroups) => last.roles = <<>>
        /\ (/\ HasGroups /\ GroupAnswered /\ OnlyGuest(groupRoles.rows)
            /\ isPublic = "false" /\ ~IsSysAdmin) =>
              /\ last.op = "HasReadPerm" => last.ok
              /\ last.op = "HasWritePerm" => ~last.ok

C9_Witness ==
    /\ FallbackReached(last.pid)
    /\ last.op = "GetProjectRoles"
    /\ HasGroups
    /\ GroupAnswered
    /\ last.roles = <<RoleGuest>>

\* C10 as stated: on the same collaborator answers HasAllPerm implies
\* HasWritePerm and HasWritePerm implies HasReadPerm.
C10_Original ==
    /\ (last.op = "HasAllPerm" /\ last.ok) => HasWritePerm(last.pid).ret
    /\ (last.op = "HasWritePerm" /\ last.ok) => HasReadPerm(last.pid).ret

\* C10 amended: HasAllPerm implies HasWritePerm, and HasWritePerm implies
\* HasReadPerm provided the public-flag lookup does not fail.
C10_Monotone ==
    /\ (last.op = "HasAllPerm" /\ last.ok) => HasWritePerm(last.pid).ret
    /\ (last.op = "HasWritePerm" /\ last.ok /\ isPublic # "err")
          => HasReadPerm(last.pid).ret

C10_Witness ==
    /\ last.op = "HasWritePerm"
    /\ last.ok
    /\ ~IsSysAdmin
    /\ isPublic = "false"
    /\ HasReadPerm(last.pid).ret

====
